---------------------------- MODULE Spec2Model ----------------------------
(***************************************************************************)
(* Model of etl.py: the batch job that reads song metadata and listening   *)
(* logs, builds the tables songs, artists, users, time and songplays, and  *)
(* writes each one as parquet.                                             *)
(*                                                                         *)
(* A dataframe is a record [cols, rows]: cols is the set of column names,  *)
(* rows a sequence of functions from column name to value.  A string such  *)
(* as a path is a sequence of tokens, "/" being a token of its own.  The   *)
(* epoch-millisecond field ts does not fit a 32-bit integer and is kept    *)
(* as [s |-> ts div 1000, ms |-> ts mod 1000].                             *)
(*                                                                         *)
(* etl.py calls error(...) in every handler and TimestampType() at lines   *)
(* 127 and 136, and binds neither name: no statement of the file imports   *)
(* or defines them.  A stock interpreter raises NameError at each use      *)
(* (names = {}).  The variable names lets a run also start in a namespace  *)
(* that provides one or both, so that the statements behind those uses     *)
(* are verified as well; every property is checked over all four cases.    *)
(***************************************************************************)
EXTENDS Integers, Sequences, FiniteSets, TLC

VARIABLES
    song_files,      \* the records under input_data + 'song_data/*/*/*/*.json'
    log_files,       \* the records under input_data + 'log_data/*.json'
    names,           \* which of the names etl.py uses without binding them resolve
    pc,              \* the statement the process is at
    rerun,           \* FALSE in the first run of the script, TRUE in the second
    store,           \* the object store: a set of [path, partitionBy, cols, rows]
    df,              \* local df of process_song_data, then of process_log_data
    song_df,         \* local song_df of process_log_data
    songs_table,
    artists_table,
    users_table,
    time_table,
    songplays_table,
    diag,            \* the diagnostic lines error() has emitted in this run
    failed,          \* the stage whose statement raised in this run, or "none"
    rejected,        \* TRUE when the engine, the storage or the config file refused
    exitStatus,      \* the status the process ended with, -1 while it runs
    executed,        \* the stages this run has executed, in order
    invoked,         \* the functions this run has called
    writes,          \* the destinations this run has written, in order
    snapshot         \* the store and the rejected flag the previous run ended with

vars == <<song_files, log_files, names, pc, rerun, store, df, song_df,
          songs_table, artists_table, users_table, time_table, songplays_table,
          diag, failed, rejected, exitStatus, executed, invoked, writes, snapshot>>

frames == <<df, song_df, songs_table, artists_table, users_table, time_table,
            songplays_table>>

inputs == <<song_files, log_files, names, rerun, snapshot>>

(***************************************************************************)
(* Bounds of the model.                                                    *)
(***************************************************************************)
MaxSongs == 2
MaxLogs == 2

(***************************************************************************)
(* Generic helpers on sequences and rows.                                  *)
(***************************************************************************)
Range(s) == {s[i] : i \in 1..Len(s)}

Count(s, r) == Cardinality({i \in 1..Len(s) : s[i] = r})

Project(row, cols) == [c \in cols |-> row[c]]

NoFrame == [cols |-> {}, rows |-> <<>>]

(***************************************************************************)
(* The inputs.  A dataframe has no row order, so an input is drawn as a    *)
(* sequence that lists pool records in pool order, with repetition.        *)
(***************************************************************************)
SongPool ==
    << [song_id |-> "S1", title |-> "T", artist_id |-> "AR1", artist_name |-> "Band",
        artist_location |-> "LA", artist_latitude |-> 34, artist_longitude |-> 118,
        year |-> 2000, duration |-> 180, num_songs |-> 1],
       [song_id |-> "S1", title |-> "T2", artist_id |-> "AR1", artist_name |-> "Band",
        artist_location |-> "LA", artist_latitude |-> 34, artist_longitude |-> 118,
        year |-> 2000, duration |-> 180, num_songs |-> 1],
       [song_id |-> "S2", title |-> "U", artist_id |-> "AR2", artist_name |-> "Band",
        artist_location |-> "NY", artist_latitude |-> 40, artist_longitude |-> 74,
        year |-> 0, duration |-> 200, num_songs |-> 1] >>

LogPool ==
    << [page |-> "NextSong", artist |-> "Band", song |-> "T",
        ts |-> [s |-> 1000000000, ms |-> 0],
        userId |-> "7", firstName |-> "Jo", lastName |-> "Doe", gender |-> "F",
        level |-> "free", sessionId |-> 5, itemInSession |-> 0,
        userAgent |-> "UA", location |-> "LA"],
       [page |-> "NextSong", artist |-> "Solo", song |-> "V",
        ts |-> [s |-> 1000000000, ms |-> 1],
        userId |-> "7", firstName |-> "Jo", lastName |-> "Doe", gender |-> "F",
        level |-> "paid", sessionId |-> 6, itemInSession |-> 1,
        userAgent |-> "UA", location |-> "LA"],
       [page |-> "Home", artist |-> "Band", song |-> "T",
        ts |-> [s |-> 1541903636, ms |-> 796],
        userId |-> "9", firstName |-> "Al", lastName |-> "Roe", gender |-> "M",
        level |-> "free", sessionId |-> 7, itemInSession |-> 0,
        userAgent |-> "UA", location |-> "SF"] >>

Draws(pool, n) ==
    UNION { { [i \in 1..k |-> pool[idx[i]]] :
                idx \in { f \in [1..k -> 1..Len(pool)] :
                            \A i \in 1..k, j \in 1..k : i <= j => f[i] <= f[j] } } :
            k \in 0..n }

UnboundNames == {"error", "TimestampType"}

(***************************************************************************)
(* Dataframe operations.                                                   *)
(***************************************************************************)
ReadJson(files) ==
    [cols |-> IF files = <<>> THEN {} ELSE DOMAIN files[1], rows |-> files]

Select(frame, cols) ==
    [cols |-> cols, rows |-> [i \in 1..Len(frame.rows) |-> Project(frame.rows[i], cols)]]

RECURSIVE Distinct(_)
Distinct(rows) ==
    IF rows = <<>> THEN <<>>
    ELSE LET init == Distinct(SubSeq(rows, 1, Len(rows) - 1))
             last == rows[Len(rows)]
         IN  IF last \in Range(init) THEN init ELSE Append(init, last)

KeepAll(frame) == frame

DropDuplicates(frame) == [cols |-> frame.cols, rows |-> Distinct(frame.rows)]

IsNextSong(row) == row.page = "NextSong"

FilterNone(frame) == frame

FilterPage(frame) == [cols |-> frame.cols, rows |-> SelectSeq(frame.rows, IsNextSong)]

WithColumnRenamed(frame, old, new) ==
    IF old \notin frame.cols THEN frame
    ELSE LET ncols == (frame.cols \ {old}) \cup {new}
         IN  [cols |-> ncols,
              rows |-> [i \in 1..Len(frame.rows) |->
                          [c \in ncols |-> IF c = new THEN frame.rows[i][old]
                                           ELSE frame.rows[i][c]]]]

RenameLog(frame) ==
    WithColumnRenamed(
      WithColumnRenamed(
        WithColumnRenamed(
          WithColumnRenamed(
            WithColumnRenamed(
              WithColumnRenamed(frame, "userId", "user_id"),
              "firstName", "first_name"),
            "lastName", "last_name"),
          "userAgent", "user_agent"),
        "sessionId", "session_id"),
      "itemInSession", "item_in_session")

\* column holds the new column's value for each row, in row order.
WithColumn(frame, name, column) ==
    LET ncols == frame.cols \cup {name}
    IN  [cols |-> ncols,
         rows |-> [i \in 1..Len(frame.rows) |->
                     [c \in ncols |-> IF c = name THEN column[i]
                                      ELSE frame.rows[i][c]]]]

(***************************************************************************)
(* datetime.fromtimestamp(x / 1000.0) and the calendar functions of        *)
(* pyspark.sql.functions, for a session whose time zone is UTC.            *)
(***************************************************************************)
CivilFromDays(days) ==
    LET z   == days + 719468
        era == z \div 146097
        doe == z - era * 146097
        yoe == (doe - (doe \div 1460) + (doe \div 36524) - (doe \div 146096)) \div 365
        doy == doe - (365 * yoe + (yoe \div 4) - (yoe \div 100))
        mp  == (5 * doy + 2) \div 153
        d   == doy - ((153 * mp + 2) \div 5) + 1
        m   == IF mp < 10 THEN mp + 3 ELSE mp - 9
        y   == yoe + era * 400 + (IF m <= 2 THEN 1 ELSE 0)
    IN  [year |-> y, month |-> m, day |-> d]

DaysFromCivil(y0, m, d) ==
    LET y   == IF m <= 2 THEN y0 - 1 ELSE y0
        era == y \div 400
        yoe == y - era * 400
        mp  == IF m > 2 THEN m - 3 ELSE m + 9
        doy == ((153 * mp + 2) \div 5) + d - 1
        doe == yoe * 365 + (yoe \div 4) - (yoe \div 100) + doy
    IN  era * 146097 + doe - 719468

FromTimestamp(ts) ==
    LET days == ts.s \div 86400
        rem  == ts.s % 86400
        ymd  == CivilFromDays(days)
    IN  [year |-> ymd.year, month |-> ymd.month, day |-> ymd.day,
         hour |-> rem \div 3600, minute |-> (rem % 3600) \div 60,
         second |-> rem % 60, microsecond |-> ts.ms * 1000]

\* get_timestamp(df.ts), get_datetime(df.ts): the udf applied to each row.
StartTimeOf(frame) == [i \in 1..Len(frame.rows) |-> FromTimestamp(frame.rows[i].ts)]

DaysOf(dt) == DaysFromCivil(dt.year, dt.month, dt.day)

Hour(dt) == dt.hour

DayOfMonth(dt) == dt.day

Month(dt) == dt.month

Year(dt) == dt.year

DayOfWeek(dt) == ((DaysOf(dt) + 4) % 7) + 1

WeeksInYear(y) ==
    LET P(n) == (n + (n \div 4) - (n \div 100) + (n \div 400)) % 7
    IN  IF P(y) = 4 \/ P(y - 1) = 3 THEN 53 ELSE 52

WeekOfYear(dt) ==
    LET ordinal == DaysOf(dt) - DaysFromCivil(dt.year, 1, 1) + 1
        isoday  == ((DaysOf(dt) + 3) % 7) + 1
        w       == (ordinal - isoday + 10) \div 7
    IN  IF w < 1 THEN WeeksInYear(dt.year - 1)
        ELSE IF w > WeeksInYear(dt.year) THEN 1
        ELSE w

HourOf(frame) == [i \in 1..Len(frame.rows) |-> Hour(frame.rows[i].datetime)]

DayOf(frame) == [i \in 1..Len(frame.rows) |-> DayOfMonth(frame.rows[i].datetime)]

WeekOf(frame) == [i \in 1..Len(frame.rows) |-> WeekOfYear(frame.rows[i].datetime)]

MonthOf(frame) == [i \in 1..Len(frame.rows) |-> Month(frame.rows[i].datetime)]

YearOf(frame) == [i \in 1..Len(frame.rows) |-> Year(frame.rows[i].datetime)]

WeekdayOf(frame) == [i \in 1..Len(frame.rows) |-> DayOfWeek(frame.rows[i].datetime)]

DatetimeColumns(frame) ==
    LET d1 == WithColumn(frame, "datetime", StartTimeOf(frame))
        d2 == WithColumn(d1, "hour", HourOf(d1))
        d3 == WithColumn(d2, "day", DayOf(d2))
        d4 == WithColumn(d3, "week", WeekOf(d3))
        d5 == WithColumn(d4, "month", MonthOf(d4))
        d6 == WithColumn(d5, "year", YearOf(d5))
    IN  WithColumn(d6, "weekday", WeekdayOf(d6))

(***************************************************************************)
(* The songplays join.  The joined dataframe keeps the columns of both     *)
(* sides, so a joined row is a pair [l, r]; a column name resolves when    *)
(* exactly one side carries it.                                            *)
(***************************************************************************)
AllPairs(n, m) == [k \in 1..(n * m) |-> <<((k - 1) \div m) + 1, ((k - 1) % m) + 1>>]

CrossJoin(left, right) ==
    [lcols |-> left.cols, rcols |-> right.cols,
     rows |-> [k \in 1..(Len(left.rows) * Len(right.rows)) |->
                 [l |-> left.rows[AllPairs(Len(left.rows), Len(right.rows))[k][1]],
                  r |-> right.rows[AllPairs(Len(left.rows), Len(right.rows))[k][2]]]]]

Join(left, right) ==
    LET Match(p) == left.rows[p[1]].artist = right.rows[p[2]].artist_name
        pairs    == SelectSeq(AllPairs(Len(left.rows), Len(right.rows)), Match)
    IN  [lcols |-> left.cols, rcols |-> right.cols,
         rows |-> [k \in 1..Len(pairs) |->
                     [l |-> left.rows[pairs[k][1]], r |-> right.rows[pairs[k][2]]]]]

\* F.monotonically_increasing_id() on a single partition: the row's position.
WithSongplayId(joined) ==
    [lcols |-> joined.lcols \cup {"songplay_id"}, rcols |-> joined.rcols,
     rows |-> [k \in 1..Len(joined.rows) |->
                 [l |-> [c \in joined.lcols \cup {"songplay_id"} |->
                           IF c = "songplay_id" THEN k - 1 ELSE joined.rows[k].l[c]],
                  r |-> joined.rows[k].r]]]

Resolves(joined, c) == (c \in joined.lcols) # (c \in joined.rcols)

SelectJoined(joined, cols) ==
    [cols |-> cols,
     rows |-> [k \in 1..Len(joined.rows) |->
                 [c \in cols |-> IF c \in joined.lcols THEN joined.rows[k].l[c]
                                 ELSE joined.rows[k].r[c]]]]

SongsCols == {"song_id", "title", "artist_id", "year", "duration"}

ArtistsCols == {"artist_id", "artist_name", "artist_location", "artist_latitude",
                "artist_longitude"}

UsersCols == {"user_id", "first_name", "last_name", "gender", "level"}

TimeCols == {"start_time", "hour", "day", "week", "month", "year", "weekday"}

SongplaysCols == {"songplay_id", "start_time", "user_id", "level", "song_id",
                  "artist_id", "session_id", "location", "user_agent"}

(***************************************************************************)
(* Paths and the object store.                                             *)
(***************************************************************************)
input_data == <<"s3a://udacity-dend", "/">>

output_data == <<"s3a://gy-nano-bkt", "/">>

\* os.path.join(a, b): an absolute b discards a.
PathJoin(a, b) ==
    IF b # <<>> /\ b[1] = "/" THEN b
    ELSE IF a = <<>> \/ a[Len(a)] = "/" THEN a \o b
    ELSE a \o <<"/">> \o b

SongsPath == output_data \o <<"/", "songs">>

ArtistsPath == output_data \o <<"/", "artists">>

UsersPath == PathJoin(output_data, <<"/", "users">>)

TimePath == output_data \o <<"/", "time">>

SongplaysPath == output_data \o <<"/", "song_plays">>

HasPartitionColumns(frame, partitionBy) == Range(partitionBy) \subseteq frame.cols

WriteParquetAppend(st, path, frame, partitionBy) ==
    LET old == {e \in st : e.path = path}
        before == IF old = {} THEN <<>> ELSE (CHOOSE e \in old : TRUE).rows
    IN  (st \ old) \cup {[path |-> path, partitionBy |-> partitionBy,
                          cols |-> frame.cols, rows |-> before \o frame.rows]}

\* DataFrameWriter.parquet(path, mode = 'overwrite')
WriteParquet(st, path, frame, partitionBy) ==
    {e \in st : e.path # path} \cup
        {[path |-> path, partitionBy |-> partitionBy,
          cols |-> frame.cols, rows |-> frame.rows]}

(***************************************************************************)
(* Control flow.  pc names the stage about to execute; "except" is the     *)
(* first statement of the failed stage's handler, "exit" its second.       *)
(***************************************************************************)
Stages ==
    << "config_read", "aws_env", "create_spark_session",
       "song_read", "songs_build", "songs_write", "artists_build", "artists_write",
       "log_read", "log_filter", "users_build", "users_write",
       "get_timestamp", "start_time", "datetime", "time_build", "time_write",
       "song_reread", "songplays_build", "songplays_write" >>

SongStages == {"song_read", "songs_build", "songs_write", "artists_build",
               "artists_write"}

LogStages == {"log_read", "log_filter", "users_build", "users_write",
              "get_timestamp", "start_time", "datetime", "time_build", "time_write",
              "song_reread", "songplays_build", "songplays_write"}

After(stage) ==
    LET i == CHOOSE k \in 1..Len(Stages) : Stages[k] = stage
    IN  IF i = Len(Stages) THEN "terminated" ELSE Stages[i + 1]

\* The text each handler passes to error(), without the interpolated cause.
Message ==
    [ config_read          |-> "Error reading config file",
      aws_env              |-> "Error setting AWS credential Environment Variables",
      create_spark_session |-> "Error creating SparkSession",
      song_read            |-> "Error reading songs data files while processing songs data",
      songs_build          |-> "Error creating songs_table dataframe",
      songs_write          |-> "Error writing songs table to S3",
      artists_build        |-> "Error creating artists_table dataframe",
      artists_write        |-> "Error writing artists table to S3",
      log_read             |-> "Error reading log data files",
      log_filter           |-> "Error filtering log dataframe",
      users_build          |-> "Error creating users_table dataframe",
      users_write          |-> "Error writing users table to S3",
      start_time           |-> "Error adding 'timestamp' column to log dataframe",
      time_build           |-> "Error creating time_table dataframe",
      time_write           |-> "time_table write error",
      song_reread          |-> "Error reading songs data files while processing log data",
      songplays_build      |-> "Error creating songplays dataframe",
      songplays_write      |-> "Error writing songplays table to S3" ]

Begin(stage) ==
    /\ pc = stage
    /\ executed' = Append(executed, stage)

\* The statement completed: control moves to the next one; falling off the
\* end of main ends the process with status 0.
Advance(stage) ==
    /\ pc' = After(stage)
    /\ exitStatus' = IF After(stage) = "terminated" THEN 0 ELSE exitStatus
    /\ UNCHANGED <<failed, rejected>>

\* The statement raised inside its try block: control moves to the handler.
Raise(stage, refused) ==
    /\ pc' = "except"
    /\ failed' = stage
    /\ rejected' = (rejected \/ refused)
    /\ UNCHANGED exitStatus

\* The statement raised outside any try block: the traceback ends the process.
Uncaught(stage) ==
    /\ pc' = "terminated"
    /\ failed' = stage
    /\ exitStatus' = 1
    /\ UNCHANGED rejected

\* A try-wrapped statement with no effect on the dataframes or the store.
Plain(stage) ==
    /\ Begin(stage)
    /\ \E ok \in BOOLEAN : IF ok THEN Advance(stage) ELSE Raise(stage, TRUE)
    /\ UNCHANGED <<inputs, store, frames, diag, writes>>

Init ==
    /\ song_files \in Draws(SongPool, MaxSongs)
    /\ log_files \in Draws(LogPool, MaxLogs)
    /\ names \in SUBSET UnboundNames
    /\ pc = "config_read"
    /\ rerun = FALSE
    /\ store = {}
    /\ df = NoFrame
    /\ song_df = NoFrame
    /\ songs_table = NoFrame
    /\ artists_table = NoFrame
    /\ users_table = NoFrame
    /\ time_table = NoFrame
    /\ songplays_table = NoFrame
    /\ diag = <<>>
    /\ failed = "none"
    /\ rejected = FALSE
    /\ exitStatus = -1
    /\ executed = <<>>
    /\ invoked = {}
    /\ writes = <<>>
    /\ snapshot = [store |-> {}, rejected |-> FALSE]

(***************************************************************************)
(* Module level and main.                                                  *)
(***************************************************************************)
ConfigRead ==
    /\ Plain("config_read")
    /\ UNCHANGED invoked

AwsEnv ==
    /\ Plain("aws_env")
    /\ UNCHANGED invoked

CreateSparkSession ==
    /\ Plain("create_spark_session")
    /\ invoked' = invoked \cup {"main", "create_spark_session"}

\* error(...): the name resolves and the line is emitted, or NameError
\* leaves the handler and ends the process.
ErrorCall ==
    /\ pc = "except"
    /\ IF "error" \in names
       THEN /\ diag' = Append(diag, Message[failed])
            /\ pc' = "exit"
            /\ UNCHANGED exitStatus
       ELSE /\ pc' = "terminated"
            /\ exitStatus' = 1
            /\ UNCHANGED diag
    /\ UNCHANGED <<inputs, store, frames, failed, rejected, executed, invoked, writes>>

ExitReturns ==
    /\ pc = "exit"
    /\ pc' = After(failed)
    /\ exitStatus' = IF After(failed) = "terminated" THEN 0 ELSE exitStatus
    /\ UNCHANGED <<inputs, store, frames, diag, failed, rejected, executed, invoked,
                   writes>>

\* exit(): SystemExit leaves every frame and ends the process.
ExitCall ==
    /\ pc = "exit"
    /\ pc' = "terminated"
    /\ exitStatus' = 0
    /\ UNCHANGED <<inputs, store, frames, diag, failed, rejected, executed, invoked,
                   writes>>

(***************************************************************************)
(* Stage templates.                                                        *)
(***************************************************************************)
\* spark.read.json(path): refused when no file matches the glob.
ReadStage(stage, files) ==
    /\ Begin(stage)
    /\ \E ok \in (IF files = <<>> THEN {FALSE} ELSE BOOLEAN) :
          IF ok THEN Advance(stage) ELSE Raise(stage, TRUE)
    /\ UNCHANGED <<inputs, store, diag, writes>>

\* A transformation: an analysis error when a column it names is missing.
BuildStage(stage, frame, needed) ==
    /\ Begin(stage)
    /\ IF ~(needed \subseteq frame.cols)
       THEN Raise(stage, FALSE)
       ELSE \E ok \in BOOLEAN : IF ok THEN Advance(stage) ELSE Raise(stage, TRUE)
    /\ UNCHANGED <<inputs, store, diag, writes, invoked>>

\* table.write[.partitionBy(...)].parquet(path, mode = 'overwrite'): an
\* analysis error when a partition column is missing; a refused write
\* leaves the destination as it was.
WriteStage(stage, frame, path, partitionBy) ==
    /\ Begin(stage)
    /\ IF ~HasPartitionColumns(frame, partitionBy)
       THEN /\ Raise(stage, FALSE)
            /\ UNCHANGED <<store, writes>>
       ELSE \E ok \in BOOLEAN :
              IF ok
              THEN /\ Advance(stage)
                   /\ store' = WriteParquet(store, path, frame, partitionBy)
                   /\ writes' = Append(writes, path)
              ELSE /\ Raise(stage, TRUE)
                   /\ UNCHANGED <<store, writes>>
    /\ UNCHANGED <<inputs, frames, diag>>

(***************************************************************************)
(* process_song_data                                                       *)
(***************************************************************************)
SongRead ==
    /\ ReadStage("song_read", song_files)
    /\ invoked' = invoked \cup {"process_song_data"}
    /\ df' = IF pc' = "except" THEN df ELSE ReadJson(song_files)
    /\ UNCHANGED <<song_df, songs_table, artists_table, users_table, time_table,
                   songplays_table>>

SongsBuild ==
    /\ BuildStage("songs_build", df, SongsCols)
    /\ songs_table' = IF pc' = "except" THEN songs_table
                      ELSE DropDuplicates(Select(df, SongsCols))
    /\ UNCHANGED <<df, song_df, artists_table, users_table, time_table,
                   songplays_table>>

SongsWrite ==
    /\ WriteStage("songs_write", songs_table, SongsPath, <<"year", "artist_id">>)
    /\ UNCHANGED invoked

ArtistsBuild ==
    /\ BuildStage("artists_build", df, ArtistsCols)
    /\ artists_table' = IF pc' = "except" THEN artists_table
                        ELSE DropDuplicates(Select(df, ArtistsCols))
    /\ UNCHANGED <<df, song_df, songs_table, users_table, time_table,
                   songplays_table>>

ArtistsWrite ==
    /\ WriteStage("artists_write", artists_table, ArtistsPath, <<>>)
    /\ UNCHANGED invoked

(***************************************************************************)
(* process_log_data                                                        *)
(***************************************************************************)
LogRead ==
    /\ ReadStage("log_read", log_files)
    /\ invoked' = invoked \cup {"process_log_data"}
    /\ df' = IF pc' = "except" THEN NoFrame ELSE ReadJson(log_files)
    /\ UNCHANGED <<song_df, songs_table, artists_table, users_table, time_table,
                   songplays_table>>

LogFilter ==
    /\ BuildStage("log_filter", df, {"page"})
    /\ df' = IF pc' = "except" THEN df ELSE RenameLog(FilterPage(df))
    /\ UNCHANGED <<song_df, songs_table, artists_table, users_table, time_table,
                   songplays_table>>

UsersBuild ==
    /\ BuildStage("users_build", df, UsersCols)
    /\ users_table' = IF pc' = "except" THEN users_table
                      ELSE DropDuplicates(Select(df, UsersCols))
    /\ UNCHANGED <<df, song_df, songs_table, artists_table, time_table,
                   songplays_table>>

UsersWrite ==
    /\ WriteStage("users_write", users_table, UsersPath, <<>>)
    /\ UNCHANGED invoked

\* udf(lambda ..., TimestampType()): outside any try block.
GetTimestamp ==
    /\ Begin("get_timestamp")
    /\ IF "TimestampType" \in names
       THEN Advance("get_timestamp")
       ELSE Uncaught("get_timestamp")
    /\ UNCHANGED <<inputs, store, frames, diag, writes, invoked>>

StartTime ==
    /\ BuildStage("start_time", df, {"ts"})
    /\ df' = IF pc' = "except" THEN df ELSE WithColumn(df, "start_time", StartTimeOf(df))
    /\ UNCHANGED <<song_df, songs_table, artists_table, users_table, time_table,
                   songplays_table>>

Datetime ==
    /\ Begin("datetime")
    /\ Advance("datetime")
    /\ df' = DatetimeColumns(df)
    /\ UNCHANGED <<inputs, store, diag, writes, invoked, song_df, songs_table,
                   artists_table, users_table, time_table, songplays_table>>

TimeBuild ==
    /\ BuildStage("time_build", df, TimeCols)
    /\ time_table' = IF pc' = "except" THEN time_table
                     ELSE DropDuplicates(Select(df, TimeCols))
    /\ UNCHANGED <<df, song_df, songs_table, artists_table, users_table,
                   songplays_table>>

TimeWrite ==
    /\ WriteStage("time_write", time_table, TimePath, <<"year", "month">>)
    /\ UNCHANGED invoked

SongReread ==
    /\ ReadStage("song_reread", song_files)
    /\ song_df' = IF pc' = "except" THEN song_df ELSE ReadJson(song_files)
    /\ UNCHANGED <<invoked, df, songs_table, artists_table, users_table, time_table,
                   songplays_table>>

SongplaysBuild ==
    /\ Begin("songplays_build")
    /\ LET joined == WithSongplayId(Join(df, song_df))
       IN  IF \/ "artist" \notin df.cols
              \/ "artist_name" \notin song_df.cols
              \/ \E c \in SongplaysCols : ~Resolves(joined, c)
           THEN /\ Raise("songplays_build", FALSE)
                /\ UNCHANGED songplays_table
           ELSE \E ok \in BOOLEAN :
                  IF ok
                  THEN /\ Advance("songplays_build")
                       /\ songplays_table' = SelectJoined(joined, SongplaysCols)
                  ELSE /\ Raise("songplays_build", TRUE)
                       /\ UNCHANGED songplays_table
    /\ UNCHANGED <<inputs, store, diag, writes, invoked, df, song_df, songs_table,
                   artists_table, users_table, time_table>>

SongplaysWrite ==
    /\ WriteStage("songplays_write", songplays_table, SongplaysPath, <<"year", "month">>)
    /\ UNCHANGED invoked

\* The script is started again on the same input and the same store.
Rerun ==
    /\ pc = "terminated"
    /\ ~rerun
    /\ rerun' = TRUE
    /\ snapshot' = [store |-> store, rejected |-> rejected]
    /\ pc' = "config_read"
    /\ df' = NoFrame
    /\ song_df' = NoFrame
    /\ songs_table' = NoFrame
    /\ artists_table' = NoFrame
    /\ users_table' = NoFrame
    /\ time_table' = NoFrame
    /\ songplays_table' = NoFrame
    /\ diag' = <<>>
    /\ failed' = "none"
    /\ rejected' = FALSE
    /\ exitStatus' = -1
    /\ executed' = <<>>
    /\ invoked' = {}
    /\ writes' = <<>>
    /\ UNCHANGED <<song_files, log_files, names, store>>

Next ==
    \/ ConfigRead
    \/ AwsEnv
    \/ CreateSparkSession
    \/ SongRead
    \/ SongsBuild
    \/ SongsWrite
    \/ ArtistsBuild
    \/ ArtistsWrite
    \/ LogRead
    \/ LogFilter
    \/ UsersBuild
    \/ UsersWrite
    \/ GetTimestamp
    \/ StartTime
    \/ Datetime
    \/ TimeBuild
    \/ TimeWrite
    \/ SongReread
    \/ SongplaysBuild
    \/ SongplaysWrite
    \/ ErrorCall
    \/ ExitCall
    \/ Rerun

Spec == Init /\ [][Next]_vars

(***************************************************************************)
(* Vocabulary of the properties.                                           *)
(***************************************************************************)
Last(s) == s[Len(s)]

NotSlash(t) == t # "/"

Components(path) == SelectSeq(path, NotSlash)

TableDirs == {"songs", "artists", "users", "time", "song_plays"}

UnderRoot(path) ==
    \E name \in TableDirs : Components(path) = Components(output_data) \o <<name>>

\* The tables a property speaks of: the one in memory, once built, and the
\* ones stored under a destination of that name.
Tables(name, frame) ==
    (IF frame.cols = {} THEN {} ELSE {frame.rows})
        \cup {e.rows : e \in {x \in store : Last(x.path) = name}}

Terminated == pc = "terminated"

NextSongLogs == SelectSeq(log_files, IsNextSong)

UsersRowOf(l) ==
    [user_id |-> l.userId, first_name |-> l.firstName, last_name |-> l.lastName,
     gender |-> l.gender, level |-> l.level]

TimeRowOf(l) ==
    LET t == FromTimestamp(l.ts)
    IN  [start_time |-> t, hour |-> Hour(t), day |-> DayOfMonth(t),
         week |-> WeekOfYear(t), month |-> Month(t), year |-> Year(t),
         weekday |-> DayOfWeek(t)]

PlayKeyCols == {"user_id", "session_id", "song_id", "artist_id"}

PlayKeyOf(l, s) ==
    [user_id |-> l.userId, session_id |-> l.sessionId,
     song_id |-> s.song_id, artist_id |-> s.artist_id]

(***************************************************************************)
(* C1. Filter correctness: every row of the users, time and songplays      *)
(* tables, in memory or stored, is the row derived from some log record    *)
(* whose page is "NextSong"; a record with another page yields no row.     *)
(***************************************************************************)
FilterCorrectness ==
    /\ \A rows \in Tables("users", users_table) : \A r \in Range(rows) :
          \E l \in Range(NextSongLogs) : r = UsersRowOf(l)
    /\ \A rows \in Tables("time", time_table) : \A r \in Range(rows) :
          \E l \in Range(NextSongLogs) : r = TimeRowOf(l)
    /\ \A rows \in Tables("song_plays", songplays_table) : \A r \in Range(rows) :
          \E l \in Range(NextSongLogs) :
             /\ r.user_id = l.userId
             /\ r.session_id = l.sessionId
             /\ r.start_time = FromTimestamp(l.ts)

FilterWitness ==
    /\ \E l \in Range(log_files) : l.page # "NextSong"
    /\ \E e \in store : Last(e.path) = "users" /\ e.rows # <<>>
    /\ \E e \in store : Last(e.path) = "time" /\ e.rows # <<>>
    /\ songplays_table.rows # <<>>

(***************************************************************************)
(* C2. Songplay join: the songplays table that process_log_data builds     *)
(* holds exactly one row per pair of a NextSong log record and a raw song  *)
(* record with log.artist = song.artist_name, carrying the log record's    *)
(* user_id and session_id and the song record's song_id and artist_id.     *)
(***************************************************************************)
MatchingPairs ==
    {p \in (1..Len(NextSongLogs)) \X (1..Len(song_files)) :
        NextSongLogs[p[1]].artist = song_files[p[2]].artist_name}

PairKey(p) == PlayKeyOf(NextSongLogs[p[1]], song_files[p[2]])

SongplaysBuilt == songplays_table.cols # {}

NoContinuation ==
    [][ /\ (failed # "none" /\ rerun' = rerun) =>
              /\ pc' \in {pc, "exit", "terminated"}
              /\ executed' = executed
              /\ writes' = writes
              /\ store' = store
        /\ \A s \in Range(executed') : Count(executed', s) = 1 ]_vars

NoContinuationWitness ==
    /\ Terminated
    /\ failed # "none"
    /\ writes # <<>>

(***************************************************************************)
(* C4, as stated: in a run where a stage of process_song_data fails,       *)
(* process_log_data is still invoked.                                      *)
(***************************************************************************)
LogInvokedAfterSongFailure ==
    (Terminated /\ failed \in SongStages) => "process_log_data" \in invoked

(***************************************************************************)
(* C4, amended: a failure in process_song_data ends the process, so        *)
(* process_log_data is invoked only in runs where every stage of           *)
(* process_song_data has succeeded.                                        *)
(***************************************************************************)
LogInvokedOnlyAfterSongSuccess ==
    /\ failed \in SongStages => "process_log_data" \notin invoked
    /\ "process_log_data" \in invoked =>
          /\ SongStages \subseteq Range(executed)
          /\ {SongsPath, ArtistsPath} \subseteq Range(writes)

SongFailureWitness ==
    /\ Terminated
    /\ failed \in SongStages
    /\ "process_song_data" \in invoked
    /\ "process_log_data" \notin invoked

(***************************************************************************)
(* C5. Successful completion: a run in which the configuration loads and   *)
(* nothing is refused ends with a clean exit and with all five tables      *)
(* written.                                                                *)
(***************************************************************************)
SuccessfulCompletion ==
    (Terminated /\ ~rejected) =>
        /\ exitStatus = 0
        /\ failed = "none"
        /\ \A name \in TableDirs : \E i \in 1..Len(writes) : Last(writes[i]) = name

(***************************************************************************)
(* C6. Output locations: every write of a run targets one of the five      *)
(* named subdirectories of output_data.                                    *)
(***************************************************************************)
WritesUnderRoot ==
    \A i \in 1..Len(writes) : UnderRoot(writes[i])

Deduplicated(rows, tuples, n) ==
    /\ \A r \in Range(rows) : Count(rows, r) = 1
    /\ Range(rows) = tuples
    /\ Len(rows) <= n

SongsRowOf(s) == Project(s, SongsCols)

ArtistsRowOf(s) == Project(s, ArtistsCols)

DedupCorrectness ==
    /\ \A rows \in Tables("songs", songs_table) :
          Deduplicated(rows, {SongsRowOf(s) : s \in Range(song_files)}, Len(song_files))
    /\ \A rows \in Tables("artists", artists_table) :
          Deduplicated(rows, {ArtistsRowOf(s) : s \in Range(song_files)}, Len(song_files))
    /\ \A rows \in Tables("users", users_table) :
          Deduplicated(rows, {UsersRowOf(l) : l \in Range(NextSongLogs)}, Len(NextSongLogs))
    /\ \A rows \in Tables("time", time_table) :
          Deduplicated(rows, {TimeRowOf(l) : l \in Range(NextSongLogs)}, Len(NextSongLogs))

DedupWitness ==
    /\ \E e \in store :
          /\ Last(e.path) = "songs"
          /\ \E i, j \in 1..Len(e.rows) :
                i # j /\ e.rows[i].song_id = e.rows[j].song_id
    /\ \E e \in store :
          /\ Last(e.path) = "users"
          /\ e.rows # <<>>
          /\ Len(e.rows) < Len(NextSongLogs)
    /\ \E e \in store : Last(e.path) = "time" /\ e.rows # <<>>

(***************************************************************************)
(* C9. Idempotence under full overwrite: when the script has run twice on  *)
(* the same input with nothing refused in either run, the store holds,     *)
(* songplay_id aside, what it held after the first run.                    *)
(***************************************************************************)
WithoutIds(st) ==
    {[path |-> e.path, partitionBy |-> e.partitionBy,
      cols |-> e.cols \ {"songplay_id"},
      rows |-> [i \in 1..Len(e.rows) |-> Project(e.rows[i], e.cols \ {"songplay_id"})]] :
        e \in st}

Idempotence ==
    (rerun /\ Terminated /\ ~rejected /\ ~snapshot.rejected) =>
        WithoutIds(store) = WithoutIds(snapshot.store)

IdempotenceWitness ==
    /\ rerun
    /\ Terminated
    /\ ~rejected
    /\ ~snapshot.rejected
    /\ Len(writes) >= 3
    /\ \E e \in store : Len(e.rows) >= 2

(***************************************************************************)
(* C10. Failure diagnostic: a process that ended because a stage failed    *)
(* has emitted exactly one diagnostic line, the one naming that stage.     *)
(***************************************************************************)
FailureDiagnostic ==
    (Terminated /\ failed # "none") =>
        /\ failed \in DOMAIN Message
        /\ diag = <<Message[failed]>>
=============================================================================
